---- MODULE Spec2Model ----
(***************************************************************************)
(* The useTrafficAI hook: session lifecycle, media resources, stream state  *)
(* machine and tool-call interpreter, together with the App buttons that    *)
(* drive it.                                                                *)
(*                                                                          *)
(* The repository holds three revisions of the hook:                        *)
(*   "r1"  src/hooks/useTrafficAI.ts                                        *)
(*   "r2"  src/components/LogPanel.tsx, lines 486-846                       *)
(*   "r3"  src/components/LogPanel.tsx, lines 94-485                        *)
(* The variable `revision` is fixed in the initial state and selects the    *)
(* code the handlers run.                                                   *)
(*                                                                          *)
(* Objects created at run time (MediaStream, AudioContext pair, live        *)
(* session, interval timer) are named by the number of the startStream      *)
(* invocation that created them; 0 stands for null.                         *)
(***************************************************************************)
EXTENDS Integers, Sequences, FiniteSets, TLC

\* ---------------------------------------------------------------- bounds
MaxStarts == 2       \* startStream invocations in one behaviour
MaxRestarts == 1     \* pending setTimeout(startStream) callbacks
MaxCount == 3        \* cap on each aggregate counter
LogWindow == 0       \* the newest LogWindow + 1 log entries are kept (lifecycle)
ToolsLogWindow == 3  \* the same, for the tool-call specification
HookLogWindow == 1   \* the same, for the hook-interface and transcript specifications
MaxCalls == 3        \* tool calls received in one behaviour
MaxChunks == 3       \* audio chunks received in one behaviour
MaxClock == 2        \* ticks of the output AudioContext's clock
MaxText == 3         \* characters of transcript accumulated
MaxFrames == 2       \* frames the timers draw in one behaviour

\* ------------------------------------------------------ program constants
LogKeep == 49        \* prev.slice(0, 49)

Revisions == {"r1", "r2", "r3"}
StreamStates == {"IDLE", "CONNECTING", "ACTIVE", "ERROR"}
FacingModes == {"environment", "user"}
ApiKeys == {"valid", "empty", "placeholder"}
Ids == 1..MaxStarts
NoError == "none"
NoRestart == "none"
NoFailure == [kind |-> "none", k |-> 0, msg |-> "none", from |-> "none"]

VARIABLES
  revision,               \* which revision of the hook runs
  apiKey,                 \* process.env.API_KEY as injected at build time
  streamState, error, facingMode, volume, stats, logs,      \* React state
  streamRef, videoSrc, frameIntervalRef,                    \* refs
  inputAudioContextRef, outputAudioContextRef, sessionPromiseRef,
  liveStreams,            \* MediaStreams whose tracks have not been stopped
  liveTimers,             \* setInterval timers not cleared
  inCtx, outCtx,          \* state of each AudioContext created
  micWired,               \* sessions whose onopen connected the processor
  session,                \* status of each live.connect session
  startPc, startMode,     \* each startStream invocation
  stops,                  \* stopStream invocations suspended at an await
  restarts,               \* pending setTimeout(() => startStream(newMode), 500)
  logWindow,              \* how many older log entries the model keeps
  acks,                   \* sendToolResponse calls made so far, in order
  currentTranscriptRef,   \* transcript text accumulated (r3), a sequence of characters
  nextStartTimeRef,       \* the playback cursor
  currentTime,            \* currentTime of each output AudioContext
  decoding,               \* onmessage invocations suspended at await decodeAudioData
  arrived,                \* audio chunks received so far
  encodingFrames,         \* frames drawn, in canvas.toBlob or blobToBase64
  queuedFrames,           \* frames whose send waits on each session's connect promise
  sentFrames,             \* frames transmitted to each session
  \* history variables, read by no handler
  received,               \* the tool calls received so far, in order
  resetAt,                \* Len(received) at the last resetAnalysis
  rejected,               \* the last onmessage ended with an uncaught exception
  scheduled,              \* the source.start(when) calls made so far, in order
  lateFrames,             \* frames transmitted after having waited on a connect promise
  droppedFrames,          \* frames encoded and never transmitted
  stopDone,               \* the last step ran stopStream to its end
  failure,                \* the last fatal error since the last startStream
  cancelled,              \* starts the user stopped before their onopen fired
  stopped                 \* starts the user stopped at any point

vars == <<revision, apiKey, streamState, error, facingMode, volume, stats, logs,
          streamRef, videoSrc, frameIntervalRef, inputAudioContextRef,
          outputAudioContextRef, sessionPromiseRef, liveStreams, liveTimers,
          inCtx, outCtx, micWired, session, startPc, startMode,
          stops, restarts, logWindow, acks, currentTranscriptRef,
          nextStartTimeRef, currentTime, decoding, arrived, queuedFrames,
          sentFrames, encodingFrames, received, resetAt, rejected, scheduled, lateFrames,
          droppedFrames, stopDone, failure, cancelled, stopped>>

\* What no handler writes
env == <<revision, apiKey, logWindow>>

\* What only the serverContent part of the message handler writes
\* What only the frame timer's callback writes
frameVars == <<encodingFrames, queuedFrames, sentFrames, lateFrames, droppedFrames>>

mediaVars == <<currentTranscriptRef, nextStartTimeRef, currentTime, decoding,
               arrived, scheduled, frameVars>>

\* What only the message handler and resetAnalysis write
toolVars == <<acks, received, resetAt, rejected, mediaVars>>

Min(a, b) == IF a < b THEN a ELSE b

\* The part of the state the hook's helpers read and write, as one record.
H == [streamState |-> streamState, error |-> error, volume |-> volume,
      logs |-> logs,
      streamRef |-> streamRef, videoSrc |-> videoSrc,
      frameIntervalRef |-> frameIntervalRef,
      inputAudioContextRef |-> inputAudioContextRef,
      outputAudioContextRef |-> outputAudioContextRef,
      liveStreams |-> liveStreams, liveTimers |-> liveTimers,
      inCtx |-> inCtx, outCtx |-> outCtx, micWired |-> micWired,
      stops |-> stops, restarts |-> restarts,
      stopDone |-> FALSE, failure |-> failure,
      cancelled |-> cancelled, stopped |-> stopped]

Apply(h) ==
  /\ streamState' = h.streamState
  /\ error' = h.error
  /\ volume' = h.volume
  /\ logs' = h.logs
  /\ streamRef' = h.streamRef
  /\ videoSrc' = h.videoSrc
  /\ frameIntervalRef' = h.frameIntervalRef
  /\ inputAudioContextRef' = h.inputAudioContextRef
  /\ outputAudioContextRef' = h.outputAudioContextRef
  /\ liveStreams' = h.liveStreams
  /\ liveTimers' = h.liveTimers
  /\ inCtx' = h.inCtx
  /\ outCtx' = h.outCtx
  /\ micWired' = h.micWired
  /\ stops' = h.stops
  /\ restarts' = h.restarts
  /\ stopDone' = h.stopDone
  /\ failure' = h.failure
  /\ cancelled' = h.cancelled
  /\ stopped' = h.stopped

\* ------------------------------------------------------------------ addLog
\* addLog with prev.slice(0, 50)
addLogSlice50(h, message, type) ==
  [h EXCEPT !.logs = <<[message |-> message, type |-> type]>>
                       \o SubSeq(@, 1, Min(Len(@), Min(LogKeep + 1, logWindow + 1)))]

\* setLogs(prev => [entry, ...prev.slice(0, 49)]); entries older than the
\* model's window are forgotten as well.
addLog(h, message, type) ==
  [h EXCEPT !.logs = <<[message |-> message, type |-> type]>>
                       \o SubSeq(@, 1, Min(Len(@), Min(LogKeep, logWindow)))]

\* -------------------------------------------------------------- stopStream
\* streamRef.current.getTracks().forEach(track => track.stop()); streamRef.current = null
ReleaseStream(h) ==
  IF h.streamRef # 0
  THEN [h EXCEPT !.liveStreams = @ \ {h.streamRef}, !.streamRef = 0]
  ELSE h

\* videoRef.current.srcObject = null (revisions r2 and r3 only)
DetachVideo(h) ==
  IF revision = "r1" THEN h ELSE [h EXCEPT !.videoSrc = 0]

\* clearInterval(frameIntervalRef.current); frameIntervalRef.current = null
ClearTimer(h) ==
  IF h.frameIntervalRef # 0
  THEN [h EXCEPT !.liveTimers = @ \ {h.frameIntervalRef}, !.frameIntervalRef = 0]
  ELSE h

\* The statements after the two awaits; toggleCamera's continuation
\* (setTimeout of the restart) runs when stopStream's promise resolves.
stopFinish(h, restart) ==
  LET h1 == [h EXCEPT !.streamState = "IDLE", !.volume = 0,
                      !.error = IF revision = "r1" THEN @ ELSE NoError,
                      !.stopDone = TRUE]
      h2 == addLog(h1, <<"Analysis stopped">>, "info")
  IN IF restart = NoRestart THEN h2
     ELSE [h2 EXCEPT !.restarts = Append(@, restart)]

\* if (outputAudioContextRef.current?.state !== 'closed') await ...?.close()
\*   null ref:  await undefined, resumed as a microtask (ctx 0)
\*   closed:    no await
\*   running:   close() is called, the context is closing until the promise resolves
\*   closing:   close() rejects, the await throws and stopStream ends there
stopCloseOutput(h, restart) ==
  LET c == h.outputAudioContextRef IN
  IF c = 0
  THEN [h EXCEPT !.stops = @ \cup {[pc |-> "out", ctx |-> 0, restart |-> restart]}]
  ELSE IF h.outCtx[c] = "closed" THEN stopFinish(h, restart)
  ELSE IF h.outCtx[c] = "running"
  THEN [h EXCEPT !.outCtx[c] = "closing",
                 !.stops = @ \cup {[pc |-> "out", ctx |-> c, restart |-> restart]}]
  ELSE h

\* if (inputAudioContextRef.current?.state !== 'closed') await ...?.close()
stopCloseInput(h, restart) ==
  LET c == h.inputAudioContextRef IN
  IF c = 0
  THEN [h EXCEPT !.stops = @ \cup {[pc |-> "in", ctx |-> 0, restart |-> restart]}]
  ELSE IF h.inCtx[c] = "closed" THEN stopCloseOutput(h, restart)
  ELSE IF h.inCtx[c] = "running"
  THEN [h EXCEPT !.inCtx[c] = "closing",
                 !.stops = @ \cup {[pc |-> "in", ctx |-> c, restart |-> restart]}]
  ELSE h

\* stopStream up to its first suspension
stopStream(h, restart) ==
  stopCloseInput(ClearTimer(DetachVideo(ReleaseStream(h))), restart)

\* A pending `await undefined` of stopStream: it resumes before any other event.
MicroPending == \E s \in stops : s.ctx = 0

\* startStream has set CONNECTING and is about to throw on the API key: the
\* throw and the catch block follow synchronously, before any other event.
KeyPending == \E k \in DOMAIN startPc : startPc[k] = "key"

Priority == MicroPending \/ KeyPending

\* stopStream resumes after an await
StopResume(s) ==
  /\ s \in stops
  /\ ~KeyPending
  /\ s.ctx = 0 \/ ~MicroPending
  /\ LET h0 == [H EXCEPT !.stops = @ \ {s}]
         h1 == IF s.ctx = 0 THEN h0
               ELSE IF s.pc = "in" THEN [h0 EXCEPT !.inCtx[s.ctx] = "closed"]
               ELSE [h0 EXCEPT !.outCtx[s.ctx] = "closed"]
         h2 == IF s.pc = "in" THEN stopCloseOutput(h1, s.restart)
               ELSE stopFinish(h1, s.restart)
     IN /\ Len(h2.restarts) <= MaxRestarts
        /\ Apply(h2)
  /\ UNCHANGED <<toolVars, env, facingMode, stats, sessionPromiseRef,
                 session, startPc, startMode>>

\* ------------------------------------------------------------- startStream
\* !apiKey (r1); !apiKey || apiKey === 'undefined' || apiKey === '""' (r2, r3)
KeyRejected ==
  IF revision = "r1" THEN apiKey = "empty" ELSE apiKey # "valid"

\* The catch block of startStream
startCatch(h, k, msg) ==
  LET h1 == addLog(h, <<"Failed to start", msg>>, "error")
      h2 == [h1 EXCEPT !.error = IF revision = "r1" THEN @ ELSE msg,
                       !.streamState = "ERROR",
                       !.failure = [kind |-> "start", k |-> k, msg |-> msg,
                                    from |-> h.streamState]]
  IN IF revision = "r2" THEN ReleaseStream(h2) ELSE stopStream(h2, NoRestart)

\* startStream(forceMode) up to the API key check and, past it, up to
\* `await getUserMedia`
startStream(h, mode) ==
  LET k == Cardinality({i \in Ids : startPc[i] # "unused"}) + 1
      h0 == [h EXCEPT !.error = IF revision = "r1" THEN @ ELSE NoError,
                      !.streamState = "CONNECTING",
                      !.failure = NoFailure]
  IN /\ k <= MaxStarts
     /\ startMode' = [startMode EXCEPT ![k] = mode]
     /\ IF KeyRejected
        THEN /\ startPc' = [startPc EXCEPT ![k] = "key"]
             /\ Apply(h0)
        ELSE /\ startPc' = [startPc EXCEPT ![k] = "media"]
             /\ Apply([h0 EXCEPT !.inCtx[k] = "running", !.outCtx[k] = "running",
                                 !.inputAudioContextRef = k,
                                 !.outputAudioContextRef = k])
     /\ UNCHANGED <<toolVars, env, facingMode, stats, sessionPromiseRef, session>>

\* The message of the Error thrown on an unusable key
KeyMessage ==
  IF revision = "r1" THEN "API Key not found"
  ELSE "API Key missing. Set 'GEMINI_API_KEY' in Vercel Env Vars."

\* if (<key unusable>) throw new Error(KeyMessage), and the catch block
KeyThrow(k) ==
  /\ startPc[k] = "key"
  /\ startPc' = [startPc EXCEPT ![k] = "failed"]
  /\ LET h1 == startCatch(H, k, KeyMessage)
     IN Apply(h1)
  /\ UNCHANGED <<toolVars, env, facingMode, stats, sessionPromiseRef,
                 session, startMode>>

\* getUserMedia resolves: the stream is stored and attached, live.connect is called
MediaGranted(k) ==
  /\ ~Priority
  /\ startPc[k] = "media"
  /\ startPc' = [startPc EXCEPT ![k] = "done"]
  /\ Apply([H EXCEPT !.streamRef = k, !.liveStreams = @ \cup {k}, !.videoSrc = k])
  /\ sessionPromiseRef' = k
  /\ session' = [session EXCEPT ![k] = "connecting"]
  /\ UNCHANGED <<toolVars, env, facingMode, stats, startMode>>

\* getUserMedia rejects (permission denied, no device): the catch block runs
MediaDenied(k) ==
  /\ ~Priority
  /\ startPc[k] = "media"
  /\ startPc' = [startPc EXCEPT ![k] = "failed"]
  /\ LET h1 == startCatch(H, k, "Permission denied")
     IN Apply(h1)
  /\ UNCHANGED <<toolVars, env, facingMode, stats, sessionPromiseRef,
                 session, startMode>>

\* -------------------------------------------------------- processToolCall
\* A JavaScript argument value: a number, a value Number() maps to NaN, or
\* undefined (the field is missing).
Num(n) == [t |-> "num", v |-> n]
NaNValue == [t |-> "nan", v |-> 0]
Undefined == [t |-> "undef", v |-> 0]

\* Number(x) || 0
NumberOr0(x) == IF x.t = "num" THEN x.v ELSE 0

ToolName == IF revision = "r3" THEN "report_vehicle_detection"
            ELSE "update_traffic_count"

\* Statistics at time `now`: lastUpdated is new Date(), a logical time here
\* (the number of tool calls received when the object was built).
StatsAt(now) ==
  IF revision = "r3"
  THEN [twoWheelers |-> 0, threeWheelers |-> 0, fourWheelers |-> 0,
        heavyVehicles |-> 0, density |-> "LOW", lastUpdated |-> now]
  ELSE [twoWheelers |-> 0, fourWheelers |-> 0, lastUpdated |-> now]

ZeroStats == StatsAt(0)

Counters == DOMAIN ZeroStats \ {"density", "lastUpdated"}

\* One call of the batch, revisions r1 and r2 (two counters)
processCall2(p, fc) ==
  LET newTwo == NumberOr0(fc.args.two_wheelers)
      newFour == NumberOr0(fc.args.four_wheelers)
  IN IF newTwo > 0 \/ newFour > 0
     THEN [p EXCEPT !.stats = [twoWheelers |-> @.twoWheelers + newTwo,
                               fourWheelers |-> @.fourWheelers + newFour,
                               lastUpdated |-> p.now],
                    !.h = addLog(@, <<"Detected", newTwo, newFour>>, "vehicle")]
     ELSE p

\* processCall4 with the counters overwritten by the deltas instead of added
processCall4Overwrite(p, fc) ==
  [p EXCEPT !.stats = [twoWheelers |-> NumberOr0(fc.args.two_wheelers),
                       threeWheelers |-> NumberOr0(fc.args.three_wheelers),
                       fourWheelers |-> NumberOr0(fc.args.four_wheelers),
                       heavyVehicles |-> NumberOr0(fc.args.heavy_vehicles),
                       density |-> IF fc.args.traffic_density = "" THEN "LOW"
                                   ELSE fc.args.traffic_density,
                       lastUpdated |-> p.now],
            !.h = addLog(@, <<"Detected", fc.args.description>>, "vehicle")]

\* processCall4 without the test that some count is positive
processCall4NoGuard(p, fc) ==
  [p EXCEPT !.stats = [twoWheelers |-> @.twoWheelers + NumberOr0(fc.args.two_wheelers),
                       threeWheelers |-> @.threeWheelers + NumberOr0(fc.args.three_wheelers),
                       fourWheelers |-> @.fourWheelers + NumberOr0(fc.args.four_wheelers),
                       heavyVehicles |-> @.heavyVehicles + NumberOr0(fc.args.heavy_vehicles),
                       density |-> IF fc.args.traffic_density = "" THEN "LOW"
                                   ELSE fc.args.traffic_density,
                       lastUpdated |-> p.now],
            !.h = addLog(@, <<"Detected", fc.args.description>>, "vehicle")]

\* One call of the batch, revision r3 (four counters and density)
processCall4(p, fc) ==
  LET newTwo == NumberOr0(fc.args.two_wheelers)
      newThree == NumberOr0(fc.args.three_wheelers)
      newFour == NumberOr0(fc.args.four_wheelers)
      newHeavy == NumberOr0(fc.args.heavy_vehicles)
      density == IF fc.args.traffic_density = "" THEN "LOW"
                 ELSE fc.args.traffic_density
  IN IF newTwo > 0 \/ newThree > 0 \/ newFour > 0 \/ newHeavy > 0
     THEN [p EXCEPT !.stats = [twoWheelers |-> @.twoWheelers + newTwo,
                               threeWheelers |-> @.threeWheelers + newThree,
                               fourWheelers |-> @.fourWheelers + newFour,
                               heavyVehicles |-> @.heavyVehicles + newHeavy,
                               density |-> density,
                               lastUpdated |-> p.now],
                    !.h = addLog(@, <<"Detected", newTwo, newThree, newFour,
                                      newHeavy, fc.args.description>>, "vehicle")]
     ELSE [p EXCEPT !.stats.density = density]

\* a forEach body that handles every call, whatever its name
handlesAny(fc) == TRUE

\* if (fc.name === 'update_traffic_count') (r3: 'report_vehicle_detection')
handles(fc) == fc.name = ToolName

\* sessionPromiseRef.current?.then(session => session.sendToolResponse(...))
sendToolResponse(p, fc) ==
  IF sessionPromiseRef = 0 THEN p
  ELSE [p EXCEPT !.acks = Append(@, [id |-> fc.id, name |-> fc.name,
                                     result |-> "OK", to |-> sessionPromiseRef])]

\* functionCalls.forEach(fc => ...): p is [h, stats, acks, now, thrown];
\* reading a field of an absent fc.args throws and ends the forEach.
RECURSIVE processToolCall(_, _)
processToolCall(p, calls) ==
  IF calls = <<>> \/ p.thrown THEN p
  ELSE LET fc == Head(calls)
           p0 == [p EXCEPT !.now = @ + 1]
           p1 == IF ~handles(fc) THEN p0
                 ELSE IF ~fc.hasArgs THEN [p0 EXCEPT !.thrown = TRUE]
                 ELSE IF revision = "r3"
                      THEN sendToolResponse(processCall4(p0, fc), fc)
                 ELSE sendToolResponse(processCall2(p0, fc), fc)
       IN processToolCall(p1, Tail(calls))

\* The state processToolCall starts from
ToolState ==
  [h |-> H, stats |-> stats, acks |-> acks, now |-> Len(received),
   thrown |-> FALSE]

\* -------------------------------------------------- session callbacks
\* startVideoProcessing without the clearInterval of the running timer
startVideoProcessingNoClear(h, k) ==
  [h EXCEPT !.frameIntervalRef = k, !.liveTimers = @ \cup {k}]

\* startVideoProcessing: the video and canvas elements are mounted, so only
\* the clearInterval / setInterval part acts.
startVideoProcessing(h, k) ==
  LET h1 == IF h.frameIntervalRef # 0
            THEN [h EXCEPT !.liveTimers = @ \ {h.frameIntervalRef}]
            ELSE h
  IN [h1 EXCEPT !.frameIntervalRef = k, !.liveTimers = @ \cup {k}]

onopenNoSampler(h, k, throws) ==
  LET h1 == addLog([h EXCEPT !.streamState = "ACTIVE"],
                   <<"Session started", startMode[k]>>, "success")
      c == h1.inputAudioContextRef
  IN IF c # 0 /\ h1.streamRef # 0 /\ h1.inCtx[c] = "running"
     THEN [h1 EXCEPT !.micWired = @ \cup {k}]
     ELSE h1

\* onopen of session k. createMediaStreamSource on an AudioContext that is
\* closing or closed either throws (onopen ends there) or succeeds, depending
\* on the browser: `throws` is that choice.
onopen(h, k, throws) ==
  LET h1 == addLog([h EXCEPT !.streamState = "ACTIVE"],
                   <<"Session started", startMode[k]>>, "success")
      c == h1.inputAudioContextRef
  IN IF c # 0 /\ h1.streamRef # 0
     THEN IF h1.inCtx[c] = "running"
          THEN startVideoProcessing([h1 EXCEPT !.micWired = @ \cup {k}], k)
          ELSE IF throws THEN h1 ELSE startVideoProcessing(h1, k)
     ELSE startVideoProcessing(h1, k)

\* onerror of session k
onerror(h, k, msg) ==
  LET h1 == addLog(h, <<"Error", msg>>, "error")
      h2 == [h1 EXCEPT !.error = IF revision = "r1" THEN @ ELSE msg,
                       !.streamState = "ERROR",
                       !.failure = [kind |-> "remote", k |-> k, msg |-> msg,
                                    from |-> h.streamState]]
  IN IF revision = "r1" THEN h2
     ELSE IF revision = "r2" THEN ReleaseStream(h2)
     ELSE stopStream(h2, NoRestart)

OnOpen(k) ==
  /\ ~Priority
  /\ session[k] = "connecting"
  /\ session' = [session EXCEPT ![k] = "open"]
  /\ \E throws \in BOOLEAN :
       LET h1 == onopen(H, k, throws)
       IN Apply(h1)
  /\ UNCHANGED <<toolVars, env, facingMode, stats, sessionPromiseRef,
                 startPc, startMode>>

\* onmessage of session k for a message that carries a toolCall and no
\* serverContent
OnToolCallMessage(k, calls) ==
  /\ ~Priority
  /\ session[k] = "open"
  /\ Len(received) + Len(calls) <= MaxCalls
  /\ LET p == processToolCall(ToolState, calls)
     IN /\ \A f \in Counters : p.stats[f] \in -MaxCount..MaxCount
        /\ Apply(p.h)
        /\ stats' = p.stats
        /\ acks' = p.acks
        /\ rejected' = p.thrown
  /\ received' = received \o calls
  /\ UNCHANGED <<env, mediaVars, resetAt, facingMode, sessionPromiseRef,
                 session, startPc, startMode>>

\* onclose of session k: the socket closes after it was open or after an error
OnClose(k) ==
  /\ ~Priority
  /\ session[k] \in {"open", "errored"}
  /\ session' = [session EXCEPT ![k] = "closed"]
  /\ Apply([H EXCEPT !.streamState = "IDLE"])
  /\ UNCHANGED <<toolVars, env, facingMode, stats, sessionPromiseRef,
                 startPc, startMode>>

OnError(k) ==
  /\ ~Priority
  /\ session[k] \in {"connecting", "open"}
  /\ session' = [session EXCEPT ![k] = "errored"]
  /\ LET h1 == onerror(H, k, "Connection lost")
     IN Apply(h1)
  /\ UNCHANGED <<toolVars, env, facingMode, stats, sessionPromiseRef,
                 startPc, startMode>>

\* ------------------------------------- onmessage: serverContent
Max(a, b) == IF a > b THEN a ELSE b

\* String.prototype.trim, on a sequence of characters
RECURSIVE trimStart(_)
trimStart(t) ==
  IF t # <<>> /\ Head(t) = " " THEN trimStart(Tail(t)) ELSE t

RECURSIVE trimEnd(_)
trimEnd(t) ==
  IF t # <<>> /\ t[Len(t)] = " " THEN trimEnd(SubSeq(t, 1, Len(t) - 1)) ELSE t

trim(t) == trimEnd(trimStart(t))

\* The transcript part of onmessage with the accumulated text logged as it is
transcriptNoTrim(p, msg) ==
  LET acc == p.text \o msg.text
  IN IF msg.turnComplete /\ acc # <<>>
     THEN [h |-> addLog(p.h, acc, "transcript"), text |-> <<>>]
     ELSE [p EXCEPT !.text = acc]

\* The transcript part of onmessage (r3; r1 and r2 have none): p is [h, text],
\* an absent or empty outputTranscription.text is <<>>
transcript(p, msg) ==
  LET acc == p.text \o msg.text
  IN IF revision # "r3" THEN p
     ELSE IF msg.turnComplete /\ acc # <<>>
     THEN [h |-> IF trim(acc) # <<>> THEN addLog(p.h, trim(acc), "transcript")
                 ELSE p.h,
           text |-> <<>>]
     ELSE [p EXCEPT !.text = acc]

\* The cursor set to the clock on every arrival
nextStartNoMax == currentTime[outputAudioContextRef]

nextStartMin == Min(nextStartTimeRef, currentTime[outputAudioContextRef])

\* nextStartTimeRef.current = Math.max(nextStartTimeRef.current, ctx.currentTime)
nextStartOnArrival == Max(nextStartTimeRef, currentTime[outputAudioContextRef])

\* onmessage of session k for a message that carries serverContent and no
\* toolCall: msg is [text, turnComplete, audio], audio the duration of the
\* chunk's buffer, 0 when the message has no inline audio.  With audio the
\* handler suspends at `await decodeAudioData`.
OnContentMessage(k, msg) ==
  /\ ~Priority
  /\ session[k] = "open"
  /\ Len(currentTranscriptRef \o msg.text) <= MaxText
  /\ LET p == transcript([h |-> H, text |-> currentTranscriptRef], msg)
     IN /\ Apply(p.h)
        /\ currentTranscriptRef' = p.text
  /\ IF msg.audio # 0 /\ outputAudioContextRef # 0
     THEN /\ arrived < MaxChunks
          /\ arrived' = arrived + 1
          /\ nextStartTimeRef' = nextStartOnArrival
          /\ decoding' = decoding \cup {[id |-> arrived + 1, duration |-> msg.audio,
                                         ctx |-> outputAudioContextRef]}
     ELSE UNCHANGED <<arrived, nextStartTimeRef, decoding>>
  /\ UNCHANGED <<env, frameVars, acks, received, resetAt, rejected, currentTime, scheduled,
                 facingMode, stats, sessionPromiseRef, session, startPc, startMode>>

\* decodeAudioData resolves for chunk c and its onmessage resumes:
\* source.start(nextStartTimeRef.current); nextStartTimeRef.current +=
\* buffer.duration.  updateVol reads the streamState of the render that
\* created startStream, IDLE or ERROR for a start from the START button, and
\* returns at once.
DecodeDone(c) ==
  /\ ~Priority
  /\ c \in decoding
  /\ decoding' = decoding \ {c}
  /\ scheduled' = Append(scheduled, [id |-> c.id, when |-> nextStartTimeRef,
                                     duration |-> c.duration, ctx |-> c.ctx,
                                     at |-> currentTime[c.ctx]])
  /\ nextStartTimeRef' = nextStartTimeRef + c.duration
  /\ Apply(H)
  /\ UNCHANGED <<env, frameVars, acks, received, resetAt, rejected, currentTranscriptRef,
                 currentTime, arrived, facingMode, stats, sessionPromiseRef,
                 session, startPc, startMode>>

\* decodeAudioData rejects for chunk c: its onmessage ends at the await
DecodeFailed(c) ==
  /\ ~Priority
  /\ c \in decoding
  /\ decoding' = decoding \ {c}
  /\ Apply(H)
  /\ UNCHANGED <<env, frameVars, acks, received, resetAt, rejected, currentTranscriptRef,
                 nextStartTimeRef, currentTime, arrived, scheduled, facingMode,
                 stats, sessionPromiseRef, session, startPc, startMode>>

\* The clock of output AudioContext c advances; a closed context's clock stands
Tick(c) ==
  /\ outCtx[c] \in {"running", "closing"}
  /\ currentTime[c] < MaxClock
  /\ currentTime' = [currentTime EXCEPT ![c] = @ + 1]
  /\ Apply(H)
  /\ UNCHANGED <<env, frameVars, acks, received, resetAt, rejected, currentTranscriptRef,
                 nextStartTimeRef, decoding, arrived, scheduled, facingMode,
                 stats, sessionPromiseRef, session, startPc, startMode>>

\* ------------------------------------------------ the frame sampler
RECURSIVE SumTo(_, _)
SumTo(f, n) == IF n = 0 THEN 0 ELSE f[n] + SumTo(f, n - 1)

\* Frames the timers have drawn so far
FramesTaken ==
  encodingFrames + droppedFrames + SumTo(queuedFrames, MaxStarts)
    + SumTo(sentFrames, MaxStarts)

\* video.readyState === 4: the video element shows a stream whose tracks run
VideoReady == videoSrc # 0 /\ videoSrc \in liveStreams

\* The setInterval callback of timer t fires: it returns when the video is
\* not ready, else draws the frame and calls canvas.toBlob.
FrameTick(t) ==
  /\ ~Priority
  /\ t \in liveTimers
  /\ FramesTaken < MaxFrames
  /\ encodingFrames' = IF VideoReady THEN encodingFrames + 1 ELSE encodingFrames
  /\ Apply(H)
  /\ UNCHANGED <<env, queuedFrames, sentFrames, lateFrames, droppedFrames,
                 acks, received, resetAt, rejected, currentTranscriptRef,
                 nextStartTimeRef, currentTime, decoding, arrived, scheduled,
                 facingMode, stats, sessionPromiseRef, session, startPc, startMode>>

\* The toBlob callback of a frame after `await blobToBase64`:
\* sessionPromiseRef.current?.then(session => session.sendRealtimeInput(...)).
\* Without a blob the callback returns.  Without a promise nothing is sent.
\* On the promise of a session still connecting the send waits for the
\* promise; on that of an open session it runs; a session that failed or
\* closed transmits nothing.
FrameEncoded(blob) ==
  /\ ~Priority
  /\ encodingFrames > 0
  /\ encodingFrames' = encodingFrames - 1
  /\ LET k == sessionPromiseRef
         to == IF ~blob \/ k = 0 THEN "nothing"
               ELSE IF session[k] = "connecting" THEN "promise"
               ELSE IF session[k] = "open" THEN "session"
               ELSE "nothing"
     IN /\ droppedFrames' = IF to = "nothing" THEN droppedFrames + 1 ELSE droppedFrames
        /\ queuedFrames' = IF to = "promise" THEN [queuedFrames EXCEPT ![k] = @ + 1]
                           ELSE queuedFrames
        /\ sentFrames' = IF to = "session" THEN [sentFrames EXCEPT ![k] = @ + 1]
                         ELSE sentFrames
  /\ Apply(H)
  /\ UNCHANGED <<env, lateFrames,
                 acks, received, resetAt, rejected, currentTranscriptRef,
                 nextStartTimeRef, currentTime, decoding, arrived, scheduled,
                 facingMode, stats, sessionPromiseRef, session, startPc, startMode>>

\* The connect promise of session k resolves, after onopen: the sends that
\* waited on it run, in the order in which they were attached.
SessionResolved(k) ==
  /\ ~Priority
  /\ session[k] = "open"
  /\ queuedFrames[k] > 0
  /\ sentFrames' = [sentFrames EXCEPT ![k] = @ + queuedFrames[k]]
  /\ lateFrames' = lateFrames + queuedFrames[k]
  /\ queuedFrames' = [queuedFrames EXCEPT ![k] = 0]
  /\ Apply(H)
  /\ UNCHANGED <<env, encodingFrames, droppedFrames,
                 acks, received, resetAt, rejected, currentTranscriptRef,
                 nextStartTimeRef, currentTime, decoding, arrived, scheduled,
                 facingMode, stats, sessionPromiseRef, session, startPc, startMode>>

\* ------------------------------------------------ the App's controls
Started == {i \in Ids : startPc[i] # "unused"}
Latest == Cardinality(Started)

\* History: the user invokes stopStream (Stop button or toggleCamera)
MarkStop(h) ==
  [h EXCEPT !.stopped = @ \cup Started,
            !.cancelled = @ \cup {i \in Started : /\ startPc[i] \in {"media", "done"}
                                                  /\ session[i] \in {"none", "connecting"}}]

\* START / RETRY button, rendered in IDLE and ERROR: onClick={() => startStream()}
ClickStart ==
  /\ ~Priority
  /\ streamState \in {"IDLE", "ERROR"}
  /\ startStream(H, facingMode)

\* STOP button, rendered in CONNECTING and ACTIVE, disabled in CONNECTING
ClickStop ==
  /\ ~Priority
  /\ streamState = "ACTIVE"
  /\ Apply(stopStream(MarkStop(H), NoRestart))
  /\ UNCHANGED <<toolVars, env, facingMode, stats, sessionPromiseRef,
                 session, startPc, startMode>>

\* toggleCamera, always offered
toggleCamera ==
  LET newMode == IF facingMode = "environment" THEN "user" ELSE "environment"
  IN /\ ~Priority
     /\ facingMode' = newMode
     /\ IF streamState \in {"ACTIVE", "CONNECTING"}
        THEN LET h1 == stopStream(addLog(MarkStop(H), <<"Switching camera...">>, "info"),
                                  newMode)
             IN /\ Len(h1.restarts) <= MaxRestarts
                /\ Apply(h1)
        ELSE Apply(H)
     /\ UNCHANGED <<toolVars, env, stats, sessionPromiseRef, session,
                    startPc, startMode>>

\* The 500 ms timeout set by toggleCamera fires
RestartFire ==
  /\ ~Priority
  /\ restarts # <<>>
  /\ startStream([H EXCEPT !.restarts = Tail(@)], Head(restarts))

\* resetAnalysis without setLogs([])
resetAnalysisKeepLogs ==
  /\ ~Priority
  /\ stats' = StatsAt(Len(received))
  /\ Apply(addLog(H, <<"Statistics reset">>, "info"))
  /\ resetAt' = Len(received)
  /\ UNCHANGED <<env, mediaVars, acks, received, rejected, facingMode,
                 sessionPromiseRef, session, startPc, startMode>>

\* resetAnalysis that also puts the stream state back to IDLE
resetAnalysisToIdle ==
  /\ ~Priority
  /\ stats' = StatsAt(Len(received))
  /\ Apply(addLog([H EXCEPT !.logs = <<>>, !.streamState = "IDLE"],
                  <<"Statistics reset">>, "info"))
  /\ resetAt' = Len(received)
  /\ UNCHANGED <<env, mediaVars, acks, received, rejected, facingMode,
                 sessionPromiseRef, session, startPc, startMode>>

\* resetAnalysis
resetAnalysis ==
  /\ ~Priority
  /\ stats' = StatsAt(Len(received))
  /\ Apply(addLog([H EXCEPT !.logs = <<>>], <<"Statistics reset">>, "info"))
  /\ resetAt' = Len(received)
  /\ UNCHANGED <<env, mediaVars, acks, received, rejected, facingMode,
                 sessionPromiseRef, session, startPc, startMode>>

\* ------------------------------------------------------ specifications
\* useRef<string>(""), useRef<number>(0); no message has arrived
InitMedia ==
  /\ currentTranscriptRef = <<>>
  /\ nextStartTimeRef = 0
  /\ currentTime = [i \in Ids |-> 0]
  /\ decoding = {}
  /\ arrived = 0
  /\ scheduled = <<>>
  /\ queuedFrames = [i \in Ids |-> 0]
  /\ sentFrames = [i \in Ids |-> 0]
  /\ lateFrames = 0
  /\ droppedFrames = 0
  /\ encodingFrames = 0

InitState(window) ==
  /\ revision \in Revisions
  /\ InitMedia
  /\ logWindow = window
  /\ acks = <<>>
  /\ received = <<>>
  /\ resetAt = 0
  /\ rejected = FALSE
  /\ apiKey \in ApiKeys
  /\ streamState = "IDLE"
  /\ error = NoError
  /\ facingMode = "environment"
  /\ volume = 0
  /\ stats = ZeroStats
  /\ logs = <<>>
  /\ streamRef = 0
  /\ videoSrc = 0
  /\ frameIntervalRef = 0
  /\ inputAudioContextRef = 0
  /\ outputAudioContextRef = 0
  /\ sessionPromiseRef = 0
  /\ liveStreams = {}
  /\ liveTimers = {}
  /\ inCtx = [i \in Ids |-> "none"]
  /\ outCtx = [i \in Ids |-> "none"]
  /\ micWired = {}
  /\ session = [i \in Ids |-> "none"]
  /\ startPc = [i \in Ids |-> "unused"]
  /\ startMode = [i \in Ids |-> "none"]
  /\ stops = {}
  /\ restarts = <<>>
  /\ stopDone = FALSE
  /\ failure = NoFailure
  /\ cancelled = {}
  /\ stopped = {}

Init == InitState(LogWindow)

\* The session lifecycle: the App's start, stop and camera controls, the
\* continuations of startStream and stopStream, and the open, close and error
\* callbacks of the sessions.  Tool-call messages and resetAnalysis write only
\* stats and logs, which no lifecycle handler reads; SpecTools covers them.
Next ==
  \/ ClickStart
  \/ ClickStop
  \/ toggleCamera
  \/ RestartFire
  \/ \E s \in stops : StopResume(s)
  \/ \E k \in Ids : KeyThrow(k)
  \/ \E k \in Ids : MediaGranted(k)
  \/ \E k \in Ids : MediaDenied(k)
  \/ \E k \in Ids : OnOpen(k)
  \/ \E k \in Ids : OnClose(k)
  \/ \E k \in Ids : OnError(k)

Spec == Init /\ [][Next]_vars

\* stopStream as the hook returns it, called by a user of the hook in any state
HookStop ==
  /\ ~Priority
  /\ Apply(stopStream(MarkStop(H), NoRestart))
  /\ UNCHANGED <<toolVars, env, facingMode, stats, sessionPromiseRef,
                 session, startPc, startMode>>

\* The hook's interface: as the lifecycle, with stopStream callable in every
\* state and without the camera toggle.
InitHook == InitState(HookLogWindow)

NextHook ==
  \/ ClickStart
  \/ HookStop
  \/ \E s \in stops : StopResume(s)
  \/ \E k \in Ids : KeyThrow(k)
  \/ \E k \in Ids : MediaGranted(k)
  \/ \E k \in Ids : MediaDenied(k)
  \/ \E k \in Ids : OnOpen(k)
  \/ \E k \in Ids : OnClose(k)
  \/ \E k \in Ids : OnError(k)

SpecHook == InitHook /\ [][NextHook]_vars

\* The hook's interface in a build with a usable API key, with the
\* environment the start-up needs: a pending getUserMedia that can resolve
\* does resolve, a connecting session that can open does open, and the event
\* loop runs the continuations of stopStream.  Denials, errors, closes and
\* calls of stopStream stay possible at every point.
InitStart == InitState(LogWindow) /\ apiKey = "valid"

NextStart ==
  \/ ClickStart
  \/ HookStop
  \/ \E s \in stops : StopResume(s)
  \/ \E k \in Ids : MediaGranted(k)
  \/ \E k \in Ids : MediaDenied(k)
  \/ \E k \in Ids : OnOpen(k)
  \/ \E k \in Ids : OnClose(k)
  \/ \E k \in Ids : OnError(k)

FairStart ==
  /\ \A k \in Ids : WF_vars(MediaGranted(k)) /\ WF_vars(OnOpen(k))
  /\ WF_vars(\E s \in stops : StopResume(s))

SpecStart == InitStart /\ [][NextStart]_vars /\ FairStart

\* The hook's interface with resetAnalysis, callable in every stream state
NextReset ==
  \/ NextHook
  \/ resetAnalysis

SpecReset == InitHook /\ [][NextReset]_vars

\* The log at its full length, in a build without an API key: starts that
\* fail and stopStream calls, with every entry kept that the code keeps.
InitLog == InitState(LogKeep) /\ apiKey = "empty"

NextLog ==
  \/ ClickStart
  \/ HookStop
  \/ \E s \in stops : StopResume(s)
  \/ \E k \in Ids : KeyThrow(k)

SpecLog == InitLog /\ [][NextLog]_vars

\* The tool-call interpreter on an open session: the state after
\* ClickStart, MediaGranted(1), OnOpen(1), then tool-call batches and resets.
Args(two, three, four, heavy, density) ==
  [two_wheelers |-> two, three_wheelers |-> three, four_wheelers |-> four,
   heavy_vehicles |-> heavy, traffic_density |-> density, description |-> ""]

Call(id, name, args) == [id |-> id, name |-> name, hasArgs |-> TRUE, args |-> args]

\* The function calls a message may carry: counts that are positive, zero,
\* negative, non-numeric or missing; a density that is missing ("") or not
\* of the enumeration; another function's name; no args object at all.
CallFirst == Call(1, ToolName, Args(Num(2), Undefined, Num(1), Undefined, ""))
CallSecond == Call(2, ToolName, Args(Num(1), Num(0), Num(0), Num(3), ""))
CallDense == Call(3, ToolName, Args(Num(1), Undefined, Num(0), Undefined, "HIGH"))
CallNegative == Call(4, ToolName, Args(Num(-1), Num(0), Num(1), Num(0), "MEDIUM"))
CallZero == Call(5, ToolName, Args(Num(0), Num(0), Num(0), Num(0), "HIGH"))
CallMalformed == Call(6, ToolName, Args(NaNValue, Undefined, NaNValue, Undefined, "JAMMED"))
CallUnknown == Call(7, "other_tool", Args(Num(1), Num(1), Num(1), Num(1), "HIGH"))
CallNoArgs == [id |-> 8, name |-> ToolName, hasArgs |-> FALSE, args |-> <<>>]

ToolCalls == {CallFirst, CallSecond, CallDense, CallNegative, CallZero,
              CallMalformed, CallUnknown, CallNoArgs}

ToolBatches ==
  {<<c>> : c \in ToolCalls} \cup {<<c, d>> : c \in ToolCalls, d \in ToolCalls}

InitOpen(window) ==
  /\ revision \in Revisions
  /\ InitMedia
  /\ logWindow = window
  /\ acks = <<>>
  /\ received = <<>>
  /\ resetAt = 0
  /\ rejected = FALSE
  /\ apiKey = "valid"
  /\ streamState = "ACTIVE"
  /\ error = NoError
  /\ facingMode = "environment"
  /\ volume = 0
  /\ stats = ZeroStats
  /\ logs = <<[message |-> <<"Session started", "environment">>, type |-> "success"]>>
  /\ streamRef = 1
  /\ videoSrc = 1
  /\ frameIntervalRef = 1
  /\ inputAudioContextRef = 1
  /\ outputAudioContextRef = 1
  /\ sessionPromiseRef = 1
  /\ liveStreams = {1}
  /\ liveTimers = {1}
  /\ inCtx = [i \in Ids |-> IF i = 1 THEN "running" ELSE "none"]
  /\ outCtx = [i \in Ids |-> IF i = 1 THEN "running" ELSE "none"]
  /\ micWired = {1}
  /\ session = [i \in Ids |-> IF i = 1 THEN "open" ELSE "none"]
  /\ startPc = [i \in Ids |-> IF i = 1 THEN "done" ELSE "unused"]
  /\ startMode = [i \in Ids |-> IF i = 1 THEN "environment" ELSE "none"]
  /\ stops = {}
  /\ restarts = <<>>
  /\ stopDone = FALSE
  /\ failure = NoFailure
  /\ cancelled = {}
  /\ stopped = {}

InitTools == InitOpen(ToolsLogWindow)

NextTools ==
  \/ \E calls \in ToolBatches : OnToolCallMessage(1, calls)
  \/ resetAnalysis

SpecTools == InitTools /\ [][NextTools]_vars

\* A serverContent message
Content(text, turnComplete, audio) ==
  [text |-> text, turnComplete |-> turnComplete, audio |-> audio]

\* Transcripts on an open session.  The messages: text fragments with and
\* without surrounding blanks, a turn-complete marker alone and with a last
\* fragment.
TranscriptMessages ==
  { Content(<<"a">>, FALSE, 0), Content(<<" ", "b">>, FALSE, 0),
    Content(<<" ">>, FALSE, 0), Content(<<>>, TRUE, 0),
    Content(<<"b", " ">>, TRUE, 0) }

NextTranscript ==
  \E msg \in TranscriptMessages : OnContentMessage(1, msg)

InitTranscript == InitOpen(HookLogWindow)

SpecTranscript == InitTranscript /\ [][NextTranscript]_vars

\* Audio playback on an open session.  The messages: audio chunks of two
\* durations, alone and with the last fragment of a turn; decoding takes any
\* time and may fail.
AudioMessages ==
  { Content(<<>>, FALSE, 1), Content(<<>>, FALSE, 2), Content(<<"a">>, TRUE, 1) }

NextAudio ==
  \/ \E msg \in AudioMessages : OnContentMessage(1, msg)
  \/ \E c \in decoding : DecodeDone(c)
  \/ \E c \in decoding : DecodeFailed(c)
  \/ \E c \in Ids : Tick(c)

SpecAudio == InitTools /\ [][NextAudio]_vars

\* Audio playback across a stop and a restart: an open session receives
\* chunks, the user stops it and starts the next one, which opens and
\* receives chunks on its own output context.  A chunk of the first session
\* still decoding at the stop is scheduled when its decode resolves.
PlaybackMessages == { Content(<<>>, FALSE, 1), Content(<<>>, FALSE, 2) }

NextPlayback ==
  \/ \E k \in Ids, msg \in PlaybackMessages : OnContentMessage(k, msg)
  \/ \E c \in decoding : DecodeDone(c)
  \/ \E c \in decoding : DecodeFailed(c)
  \/ \E c \in Ids : Tick(c)
  \/ ClickStop
  \/ \E s \in stops : StopResume(s)
  \/ ClickStart
  \/ \E k \in Ids : MediaGranted(k)
  \/ \E k \in Ids : OnOpen(k)

SpecPlayback == InitTranscript /\ [][NextPlayback]_vars

\* The frame sampler of an open session across a remote close, a stop and a
\* restart: the timers fire, frames are encoded and handed to the session
\* promise current at that moment.
NextFrames ==
  \/ \E t \in Ids : FrameTick(t)
  \/ \E blob \in BOOLEAN : FrameEncoded(blob)
  \/ \E k \in Ids : SessionResolved(k)
  \/ ClickStart
  \/ ClickStop
  \/ \E s \in stops : StopResume(s)
  \/ \E k \in Ids : MediaGranted(k)
  \/ \E k \in Ids : OnOpen(k)
  \/ \E k \in Ids : OnClose(k)
  \/ \E k \in Ids : OnError(k)

SpecFrames == InitTranscript /\ [][NextFrames]_vars

\* ================================================================ claims
NoStopInFlight == stops = {}

\* C1: if start() is followed by stop() before the session's open callback
\* has fired, then (until start() is invoked again) the stream state never
\* becomes Active once that stop has run.
C1_StopBeforeOpenNeverActive ==
  \A k \in cancelled :
     (k = Latest /\ NoStopInFlight) => streamState # "ACTIVE"

\* C2: if stop() is invoked while start()'s media acquisition or session
\* opening is pending, then once the continuations of that start and of the
\* stop have run, none of that start's stream, audio contexts and frame
\* timer is live.
C2_StopDuringStartReleasesAll ==
  \A k \in cancelled :
     (startPc[k] # "media" /\ session[k] # "connecting" /\ NoStopInFlight)
       => /\ k \notin liveStreams
          /\ k \notin liveTimers
          /\ inCtx[k] # "running"
          /\ outCtx[k] # "running"

\* C3: at most one remote session is open at any time.
C3_AtMostOneSessionOpen ==
  Cardinality({k \in Ids : session[k] = "open"}) <= 1

\* C4: at most one camera/microphone stream, one input audio context and
\* one output audio context are live at any time (a teardown in progress
\* set aside).
C4_AtMostOneResourcePerKind ==
  NoStopInFlight
    => /\ Cardinality(liveStreams) <= 1
       /\ Cardinality({k \in Ids : inCtx[k] = "running"}) <= 1
       /\ Cardinality({k \in Ids : outCtx[k] = "running"}) <= 1

\* C5: the open, close and error callbacks of a session that has been
\* stopped, or superseded by a newer start(), change neither the stream
\* state, the statistics, the logs nor the resources.
Stale(k) == k \in stopped \/ k < Latest

C5_StaleCallbacksChangeNothing ==
  [][\A k \in Ids :
        (Stale(k) /\ (OnOpen(k) \/ OnClose(k) \/ OnError(k)))
          => UNCHANGED <<streamState, error, stats, logs, volume, streamRef,
                         videoSrc, frameIntervalRef, inputAudioContextRef,
                         outputAudioContextRef, liveStreams, liveTimers,
                         inCtx, outCtx>>]_vars

\* C6: every change of the stream state is Idle or Error to Connecting,
\* Connecting to Active, Connecting or Active to Error, or Active or
\* Connecting to Idle.
ListedTransitions ==
  { <<"IDLE", "CONNECTING">>, <<"ERROR", "CONNECTING">>,
    <<"CONNECTING", "ACTIVE">>,
    <<"CONNECTING", "ERROR">>, <<"ACTIVE", "ERROR">>,
    <<"ACTIVE", "IDLE">>, <<"CONNECTING", "IDLE">> }

C6_OnlyListedTransitions ==
  [][streamState' # streamState
       => <<streamState, streamState'>> \in ListedTransitions]_vars

\* C7: after a remote session error or a failure of the start sequence, once
\* the teardown has completed and until start() is next invoked, the stream
\* state is Error and the error message is the message of that error (r1
\* keeps no error message, so only its stream state is constrained).
C7_ErrorStateAndMessageStay ==
  (failure.kind # "none" /\ NoStopInFlight)
    => /\ streamState = "ERROR"
       /\ revision # "r1" => error = failure.msg

\* C8: after a remote error of the current session in Connecting or Active,
\* once the teardown has completed, the session's tracks are stopped, its
\* frame timer is cancelled and both its audio contexts are closed.
C8_RemoteErrorTearsDown ==
  (/\ failure.kind = "remote"
   /\ failure.from \in {"CONNECTING", "ACTIVE"}
   /\ failure.k = Latest
   /\ NoStopInFlight)
    => /\ failure.k \notin liveStreams
       /\ failure.k \notin liveTimers
       /\ inCtx[failure.k] # "running"
       /\ outCtx[failure.k] # "running"

\* C9: a start() that fails (credential absent or a placeholder, media access
\* refused) opens no session and, once its error handling has completed,
\* leaves none of its stream, audio contexts and timer acquired; with an
\* unusable credential no start() gets past the credential check.
C9_FailedStartLeavesNothing ==
  /\ apiKey # "valid" => \A k \in Ids : startPc[k] \in {"unused", "key", "failed"}
  /\ \A k \in Ids :
       (startPc[k] = "failed" /\ NoStopInFlight)
         => /\ session[k] = "none"
            /\ k \notin liveStreams
            /\ k \notin liveTimers
            /\ inCtx[k] # "running"
            /\ outCtx[k] # "running"

\* C10: when a stop() invoked from the controls completes, no other stop()
\* and no start() being in flight, no start() having been invoked since and
\* none having been stopped before its open: the stream reference is cleared
\* and its tracks stopped, the video source is detached, the frame timer is
\* cancelled, both audio contexts are closed, volume is 0, the error is
\* cleared and the stream state is Idle.
NoStartInFlight ==
  /\ NoStopInFlight
  /\ cancelled = {}
  /\ Latest \in stopped
  /\ \A k \in Ids : startPc[k] \notin {"key", "media"} /\ session[k] # "connecting"

C10_StopPostcondition ==
  (stopDone /\ NoStartInFlight)
    => /\ streamRef = 0
       /\ Latest \notin liveStreams
       /\ videoSrc = 0
       /\ frameIntervalRef = 0
       /\ Latest \notin liveTimers
       /\ inputAudioContextRef # 0 => inCtx[inputAudioContextRef] = "closed"
       /\ outputAudioContextRef # 0 => outCtx[outputAudioContextRef] = "closed"
       /\ volume = 0
       /\ error = NoError
       /\ streamState = "IDLE"

\* C11: stop() called when the stream state is already Idle changes nothing
\* observable: stream state, statistics, volume, error, log sequence and
\* resources stay as they are, in the call and in its resumption.
C11_StopWhenIdleChangesNothing ==
  [][(/\ streamState = "IDLE"
      /\ \/ HookStop
         \/ \E s \in stops : s.ctx = 0 /\ StopResume(s))
       => UNCHANGED <<streamState, stats, volume, error, logs, liveStreams,
                      liveTimers, inCtx, outCtx>>]_vars

\* C12: after stop() has completed, and after a remote close or a remote
\* error of a session, that session is no longer open or opening and its
\* handle is no longer held: the session reference holds none until the
\* next start().
C12_NoSessionHandleAfterEnd ==
  /\ (stopDone /\ Latest \in stopped)
       => /\ sessionPromiseRef = 0
          /\ \A k \in stopped : session[k] \notin {"connecting", "open"}
  /\ \A k \in Ids :
       session[k] \in {"closed", "errored"} => sessionPromiseRef # k

\* C13: whatever the tool calls carry, no aggregate counter is ever
\* negative, and a counter decreases only in resetAnalysis, which puts it
\* at zero.
C13_CountersNeverDecrease ==
  [][\A f \in Counters :
        /\ stats'[f] >= 0
        /\ stats'[f] < stats[f] => (resetAnalysis /\ stats'[f] = 0)]_vars

\* C14: the acknowledgments sent are, in order, one per tool call received,
\* each echoing the call's id and name with the success payload, whatever
\* the call's name and arguments.
C14_OneAckPerCallInOrder ==
  /\ Len(acks) = Len(received)
  /\ \A i \in 1..Len(acks) :
       i <= Len(received)
         => /\ acks[i].id = received[i].id
            /\ acks[i].name = received[i].name
            /\ acks[i].result = "OK"

\* The count a call carries for a counter: its numeric value, 0 when the
\* field is missing or not a number.
ArgField(f) ==
  CASE f = "twoWheelers" -> "two_wheelers"
    [] f = "threeWheelers" -> "three_wheelers"
    [] f = "fourWheelers" -> "four_wheelers"
    [] f = "heavyVehicles" -> "heavy_vehicles"

Delta(fc, f) ==
  LET x == fc.args[ArgField(f)] IN IF x.t = "num" THEN x.v ELSE 0

KnownCall(fc) == fc.name = ToolName /\ fc.hasArgs

VehicleLogs == Cardinality({i \in 1..Len(logs) : logs[i].type = "vehicle"})

\* C15: a known-name call with a positive count adds every delta to its
\* counter, sets density to the call's density (LOW when it gives none),
\* stamps the statistics and prepends exactly one 'vehicle' log entry; and
\* from zero the calls {two:2, four:1} then {two:1, three:0, four:0, heavy:3}
\* give two=3, three=0, four=1, heavy=3, two 'vehicle' entries and two
\* acknowledgments (r1 and r2 keep only the two and four counters and no
\* density, so only those are constrained there).
C15_PositiveCallAccumulates ==
  /\ [](received = <<CallFirst, CallSecond>> /\ resetAt = 0
          => /\ stats.twoWheelers = 3
             /\ stats.fourWheelers = 1
             /\ revision = "r3"
                  => stats.threeWheelers = 0 /\ stats.heavyVehicles = 3
             /\ VehicleLogs = 2
             /\ Len(acks) = 2)
  /\ [][\A fc \in ToolCalls :
          (/\ KnownCall(fc)
           /\ \E f \in Counters : Delta(fc, f) > 0
           /\ OnToolCallMessage(1, <<fc>>))
            => /\ \A f \in Counters : stats'[f] = stats[f] + Delta(fc, f)
               /\ revision = "r3"
                    => stats'.density = IF fc.args.traffic_density = ""
                                        THEN "LOW" ELSE fc.args.traffic_density
               /\ stats'.lastUpdated = Len(received')
               /\ logs'[1].type = "vehicle"
               /\ Tail(logs') = SubSeq(logs, 1, Len(logs') - 1)
               /\ Len(logs') = Min(Len(logs), logWindow) + 1]_vars

C15_Witness ==
  /\ revision = "r3"
  /\ received = <<CallFirst, CallSecond>>
  /\ resetAt = 0
  /\ stats.heavyVehicles = 3
  /\ Len(acks) = 2

\* C16: a known-name call whose counts are all zero changes, of the
\* statistics, only density (to the call's density, LOW when it gives none):
\* the counters and lastUpdated keep their values and the log is unchanged.
Densities == {"LOW", "MEDIUM", "HIGH"}

C16_ZeroCallChangesOnlyDensity ==
  [][\A fc \in ToolCalls :
        (/\ KnownCall(fc)
         /\ \A f \in Counters : Delta(fc, f) = 0
         /\ OnToolCallMessage(1, <<fc>>))
          => /\ \A f \in DOMAIN stats \ {"density"} : stats'[f] = stats[f]
             /\ logs' = logs
             /\ (revision = "r3" /\ fc.args.traffic_density \in Densities)
                  => stats'.density = fc.args.traffic_density]_vars

C16_Witness ==
  /\ revision = "r3"
  /\ received = <<CallFirst, CallZero>>
  /\ resetAt = 0
  /\ stats.density = "HIGH"
  /\ stats.twoWheelers = 2
  /\ stats.lastUpdated = 1
  /\ VehicleLogs = 1

\* C17: a known-name call with malformed arguments (counts missing or not
\* numbers, or no argument mapping at all) raises no exception out of the
\* message handler and is acknowledged, as is every known-name call of the
\* batch.
C17_MalformedArgsRecovered ==
  /\ ~rejected
  /\ \A i \in 1..Len(received) :
       received[i].name = ToolName
         => \E j \in 1..Len(acks) : acks[j].id = received[i].id

\* C18: the density of the statistics is always one of LOW, MEDIUM, HIGH
\* (r1 and r2 keep no density).
C18_DensityInEnumeration ==
  revision = "r3" => stats.density \in Densities

\* C19: a call with an unknown name is ignored: a batch leaves the
\* statistics, the log, the acknowledgments and the handler's outcome as the
\* batch without its unknown-name calls does, and a batch of unknown-name
\* calls only changes nothing and raises nothing.
OtherName(fc) == fc.name = "other_tool"

NotOtherName(fc) == ~OtherName(fc)

C19_UnknownNameIgnored ==
  [][\A batch \in ToolBatches :
        OnToolCallMessage(1, batch)
          => LET rest == SelectSeq(batch, NotOtherName)
                 q == processToolCall(ToolState, rest)
             IN /\ \A f \in DOMAIN stats \ {"lastUpdated"} :
                     stats'[f] = q.stats[f]
                /\ logs' = q.h.logs
                /\ acks' = q.acks
                /\ rejected' = q.thrown
                /\ rest = <<>>
                     => stats' = stats /\ logs' = logs /\ ~rejected']_vars

C19_Witness ==
  /\ received = <<CallUnknown, CallFirst>>
  /\ resetAt = 0
  /\ stats.twoWheelers = 2
  /\ ~rejected
  /\ VehicleLogs = 1

\* C20 as stated: resetAnalysis leaves every counter at 0, density at LOW
\* and the log sequence empty.
C20_ResetLeavesEmptyLog ==
  [][resetAnalysis
       => /\ \A f \in Counters : stats'[f] = 0
          /\ revision = "r3" => stats'.density = "LOW"
          /\ logs' = <<>>]_vars

\* C20 amended: resetAnalysis leaves every counter at 0, density at LOW and
\* the log sequence holding the single entry 'Statistics reset'.
C20_ResetLeavesOnlyResetEntry ==
  [][resetAnalysis
       => /\ \A f \in Counters : stats'[f] = 0
          /\ revision = "r3" => stats'.density = "LOW"
          /\ logs' = <<[message |-> <<"Statistics reset">>, type |-> "info"]>>]_vars

C20_Witness ==
  /\ resetAt = Len(received)
  /\ resetAt >= 2
  /\ \A f \in Counters : stats[f] = 0
  /\ Len(logs) = 1
  /\ logs[1].message = <<"Statistics reset">>

\* C21: resetAnalysis, in every stream state, leaves the session state as it
\* is: stream state, session handle and sessions, camera/microphone stream,
\* audio contexts, frame timer, facing mode and error message.
C21_ResetKeepsSessionState ==
  [][resetAnalysis
       => UNCHANGED <<streamState, sessionPromiseRef, session, streamRef,
                      videoSrc, liveStreams, inputAudioContextRef,
                      outputAudioContextRef, inCtx, outCtx, frameIntervalRef,
                      liveTimers, facingMode, error, stops>>]_vars

C21_Witness ==
  /\ streamState = "ERROR"
  /\ logs = <<[message |-> <<"Statistics reset">>, type |-> "info"]>>
  /\ liveTimers # {}
  /\ sessionPromiseRef # 0

\* C22: the log sequence never holds more than 50 entries; the entries a
\* handler adds (one, or two when it logs twice) are
\* placed at the head, and behind them are the former entries in their
\* order, the oldest ones (the tail) left out beyond 50.
C22_LogCappedNewestFirst ==
  /\ [](Len(logs) <= LogKeep + 1)
  /\ [][logs' # logs
         => \E n \in 1..2 :
              /\ Len(logs') = Min(Len(logs) + n, LogKeep + 1)
              /\ SubSeq(logs', n + 1, Len(logs'))
                   = SubSeq(logs, 1, Len(logs') - n)]_vars

\* The log is full and the entry of a failed start has been evicted from it
C22_Witness ==
  /\ Len(logs) = LogKeep + 1
  /\ \E k \in Ids : startPc[k] = "failed"
  /\ \A i \in 1..Len(logs) : logs[i].type # "error"

\* C23: of any two chunks enqueued for playback one after the other,
\* whatever their decode latencies, the later one's scheduled start is at
\* least the earlier one's scheduled start plus the earlier one's duration.
C23_ScheduledStartsDoNotOverlap ==
  \A i \in 1..Len(scheduled) :
     i < Len(scheduled)
       => scheduled[i + 1].when >= scheduled[i].when + scheduled[i].duration

\* Three chunks scheduled, not in arrival order, of differing durations, one
\* of them after a pause
C23_Witness ==
  /\ Len(scheduled) = 3
  /\ scheduled[1].id # 1
  /\ \E i \in 1..2 : scheduled[i].duration # scheduled[i + 1].duration
  /\ \E i \in 1..2 : scheduled[i + 1].when > scheduled[i].when + scheduled[i].duration

\* C24: audio chunks are scheduled for playback in the order in which they
\* arrived, also when a later chunk finishes decoding before an earlier one.
C24_ScheduledInArrivalOrder ==
  \A i, j \in 1..Len(scheduled) :
     i < j => scheduled[i].id < scheduled[j].id

\* C25: toggleCamera flips the facing side; invoked in Active or Connecting
\* it invokes stopStream and leaves exactly one start with the new facing
\* side to come (waiting for that stop to complete, or for the delay once it
\* has); invoked in Idle or Error it stops nothing and schedules no start.
C25_ToggleStopsThenRestartsOnce ==
  [][toggleCamera
       => /\ facingMode' # facingMode
          /\ IF streamState \in {"ACTIVE", "CONNECTING"}
             THEN Cardinality({s \in stops' \ stops : s.restart = facingMode'})
                    + (Len(restarts') - Len(restarts)) = 1
             ELSE UNCHANGED <<streamState, stops, restarts, streamRef,
                              liveStreams, liveTimers, inCtx, outCtx, logs,
                              startPc>>]_vars

\* C26: startStream is never invoked while the stream state is Connecting
\* or Active, neither from the START button nor by the delayed start that
\* toggleCamera schedules.
C26_NoStartWhileConnectingOrActive ==
  [][(ClickStart \/ RestartFire) => streamState \in {"IDLE", "ERROR"}]_vars

\* C27: at most one frame-sampling timer is active at any time, and it is
\* the one the timer reference holds: starting the sampler while a timer is
\* running cancels that timer first.
C27_AtMostOneFrameTimer ==
  /\ Cardinality(liveTimers) <= 1
  /\ \A t \in liveTimers : t = frameIntervalRef

\* The sampler was started for session 2 while the timer of session 1, never
\* stopped, was running
C27_Witness ==
  /\ revision = "r1"
  /\ stopped = {}
  /\ 1 \in micWired
  /\ startPc = <<"done", "done">>
  /\ frameIntervalRef = 2
  /\ liveTimers = {2}

\* C28: once stopStream has been invoked from the controls, and until
\* startStream is invoked again, no frame-sampling timer is running, so none
\* fires and no frame is captured or sent.
C28_NoTimerAfterStop ==
  Latest \in stopped => liveTimers = {}

\* The step appends exactly one log entry, which is `entry`
AppendsOne(entry) ==
  /\ logs' # <<>>
  /\ logs'[1] = entry
  /\ Len(logs') = Min(Len(logs), logWindow) + 1
  /\ Tail(logs') = SubSeq(logs, 1, Len(logs') - 1)

\* C29 as stated (r3, the revision with transcripts): fragments are
\* accumulated in arrival order until a turn-complete marker; a completed
\* turn that has fragments appends exactly one 'transcript' entry holding
\* their concatenation, and the accumulator is emptied.
C29_TurnLogsConcatenation ==
  [][\A msg \in TranscriptMessages :
        (revision = "r3" /\ OnContentMessage(1, msg))
          => LET acc == currentTranscriptRef \o msg.text
             IN IF msg.turnComplete /\ acc # <<>>
                THEN /\ AppendsOne([message |-> acc, type |-> "transcript"])
                     /\ currentTranscriptRef' = <<>>
                ELSE /\ currentTranscriptRef' = acc
                     /\ logs' = logs]_vars

Blank(t) == \A n \in 1..Len(t) : t[n] = " "

\* t is acc without its leading and trailing blanks
Trimmed(t, acc) ==
  /\ t # <<>> => t[1] # " " /\ t[Len(t)] # " "
  /\ \E i, j \in 0..Len(acc) :
       /\ i + Len(t) + j = Len(acc)
       /\ t = SubSeq(acc, i + 1, i + Len(t))
       /\ Blank(SubSeq(acc, 1, i))
       /\ Blank(SubSeq(acc, Len(acc) - j + 1, Len(acc)))

\* C29 amended: fragments are accumulated in arrival order; at a
\* turn-complete marker with a non-empty accumulator, the accumulated text
\* without its leading and trailing blanks is appended as exactly one
\* 'transcript' entry if it is not empty, no entry is appended if it is, and
\* the accumulator is emptied.
C29_TurnLogsTrimmedText ==
  [][\A msg \in TranscriptMessages :
        (revision = "r3" /\ OnContentMessage(1, msg))
          => LET acc == currentTranscriptRef \o msg.text
             IN IF msg.turnComplete /\ acc # <<>>
                THEN /\ currentTranscriptRef' = <<>>
                     /\ IF Blank(acc) THEN logs' = logs
                        ELSE /\ logs' # <<>>
                             /\ Trimmed(logs'[1].message, acc)
                             /\ AppendsOne([message |-> logs'[1].message,
                                            type |-> "transcript"])
                ELSE /\ currentTranscriptRef' = acc
                     /\ logs' = logs]_vars

\* A turn of the fragments "a" and "b " has been logged as "ab"
C29_Witness ==
  /\ revision = "r3"
  /\ currentTranscriptRef = <<>>
  /\ logs # <<>>
  /\ logs[1] = [message |-> <<"a", "b">>, type |-> "transcript"]

\* C30: after a fatal error (unusable key, media access refused, remote
\* session error), its handling having completed and the user having
\* stopped nothing, the newest log entry is the error's entry, no other
\* entry having been appended by the handling, and the error message is the
\* error's (r1 keeps no error message).
C30_OneEntryPerFatalError ==
  (failure.kind # "none" /\ stopped = {} /\ NoStopInFlight)
    => /\ logs # <<>>
       /\ logs[1].type = "error"
       /\ logs[1].message[2] = failure.msg
       /\ revision # "r1" => error = failure.msg

\* C34: the start time with which a chunk is enqueued for playback is never
\* earlier than the time of its output clock at the moment of enqueueing,
\* however long its decoding took.
C34_NeverScheduledInThePast ==
  \A i \in 1..Len(scheduled) : scheduled[i].when >= scheduled[i].at

\* C35: a decode failure on an audio chunk enqueues nothing, leaves the
\* cursor, the stream state and the statistics as they are, and appends
\* exactly one log entry, which records the drop.
C35_DecodeFailureLogged ==
  [][\A c \in decoding :
        DecodeFailed(c)
          => /\ scheduled' = scheduled
             /\ nextStartTimeRef' = nextStartTimeRef
             /\ streamState' = streamState
             /\ stats' = stats
             /\ logs' # <<>>
             /\ Len(logs') = Min(Len(logs), logWindow) + 1
             /\ Tail(logs') = SubSeq(logs, 1, Len(logs') - 1)]_vars

\* C31: when stopStream has completed, the playback cursor nextStartTimeRef
\* is zero.
C31_StopResetsCursor ==
  stopDone => nextStartTimeRef = 0

\* C33: the playback cursor nextStartTimeRef never decreases, whatever the
\* sequence of chunks, decode failures, stops and restarts.
C33_CursorNeverDecreases ==
  [][nextStartTimeRef' >= nextStartTimeRef]_vars

\* Chunks were scheduled on the output contexts of two sessions, with a stop
\* between them, and the cursor has advanced.
C33_Witness ==
  /\ 1 \in stopped
  /\ nextStartTimeRef > 0
  /\ \E i, j \in 1..Len(scheduled) : scheduled[i].ctx = 1 /\ scheduled[j].ctx = 2

\* C37: whenever the stream state is IDLE or ERROR and no startStream is in
\* flight (none before its API key check or at getUserMedia, no session still
\* connecting, no stopStream or camera restart pending), no media stream is
\* live and no frame timer is active.
C37_IdleOrErrorHoldsNoMedia ==
  ( /\ streamState \in {"IDLE", "ERROR"}
    /\ \A k \in Ids : startPc[k] \notin {"key", "media"} /\ session[k] # "connecting"
    /\ stops = {}
    /\ restarts = <<>> )
  => liveStreams = {} /\ liveTimers = {}

\* C36: no frame is transmitted that was encoded while its session was not
\* ready and waited for the session to become ready.
C36_NoFrameSentLate ==
  lateFrames = 0

\* C32: a startStream that passed the API key check leads to ACTIVE with the
\* microphone processor of its session wired and its frame timer running,
\* unless stopStream is called or a fatal error is reported first.
C32_StartReachesActive ==
  \A k \in Ids :
    (startPc[k] = "media")
      ~> \/ /\ streamState = "ACTIVE"
            /\ k \in micWired
            /\ frameIntervalRef = k
            /\ k \in liveTimers
         \/ k \in stopped
         \/ failure.kind # "none"

\* The second startStream, made after the first one failed or was stopped,
\* has reached ACTIVE with its microphone wired and its frame timer running,
\* with no stopStream after it and no error.
C32_Witness ==
  /\ streamState = "ACTIVE"
  /\ 2 \in micWired
  /\ frameIntervalRef = 2
  /\ 2 \in liveTimers
  /\ 2 \notin stopped
  /\ failure.kind = "none"
  /\ stops = {}

====
